---------------------------- MODULE Spec2Model ----------------------------
(***************************************************************************)
(* A model of gitcheck (src/gitcheck.py): the parser of one branch sync    *)
(* line (GitSyncStatus), the per-repository status (GitFlags, GitStatus),  *)
(* the directory walk (collect_git_repositories) and the reporting loop    *)
(* (show_repos).                                                           *)
(*                                                                         *)
(* Text is modelled as sequences of one-character strings, so that the     *)
(* splitting, stripping and matching of the source are computed and not    *)
(* assumed.                                                                *)
(***************************************************************************)
EXTENDS Integers, Sequences, FiniteSets, TLC

VARIABLES
    \* --- parsing one sync line (SpecParse)
    inp,        \* the parts the line was written from (what git meant)
    line,       \* the text handed to GitSyncStatus.parse
    sync,       \* the GitSyncStatus parse returned (or the exception)
    shown,      \* the text info() returned for it
    \* --- one repository's status (SpecStatus)
    repo,       \* the repository as git sees it
    status,     \* the GitStatus built from the three query outputs
    report,     \* what code() and clean gave for it
    \* --- the walk and the report (Spec)
    tree,       \* the directory tree: symbolic links and .git markers
    args,       \* the arguments of show_repos
    ignore,     \* the ignore set, which the walk also fills with visited paths
    stack,      \* the pending calls of collect_git_repositories
    current,    \* the repository path yielded and not yet reported
    yielded,    \* every path yielded so far, in order
    listed,     \* every path whose directory was listed (os.listdir), in order
    skipped,    \* every path the walk returned from because it was in ignore
    failed,     \* the yielded paths whose GitStatus raised
    out,        \* the lines printed
    pc          \* walk | report | done | aborted

parseVars  == <<inp, line, sync, shown>>
statusVars == <<repo, status, report>>
walkVars   == <<tree, args, ignore, stack, current, yielded, listed, skipped, failed,
               out, pc>>
vars       == <<inp, line, sync, shown, repo, status, report,
               tree, args, ignore, stack, current, yielded, listed, skipped, failed,
               out, pc>>

---------------------------------------------------------------------------
(* Bounds of the model.                                                    *)

MaxTokens == 2      \* tokens inside one bracketed divergence group
MaxNum == 2         \* largest count written after ahead / behind
MaxBranches == 2    \* local branches of one repository
MaxStash == 1       \* stash entries of one repository
MaxIgnore == 1      \* paths given with --ignore
MaxDepthArg == 2    \* largest --maxdepth given

---------------------------------------------------------------------------
(* Text.                                                                   *)

SP == " "
IsSpace(c) == c = SP

RECURSIVE lstrip(_)
lstrip(s) == IF s # <<>> /\ IsSpace(Head(s)) THEN lstrip(Tail(s)) ELSE s

RECURSIVE rstrip(_)
rstrip(s) ==
    IF s # <<>> /\ IsSpace(s[Len(s)]) THEN rstrip(SubSeq(s, 1, Len(s) - 1)) ELSE s

\* str.strip()
strip(s) == rstrip(lstrip(s))

\* str.startswith(p)
startswith(s, p) == Len(s) >= Len(p) /\ SubSeq(s, 1, Len(p)) = p

\* str.find(p) + 1: the first position where p occurs in s, 0 when it does not
find(s, p) ==
    LET hits == {i \in 1..(Len(s) - Len(p) + 1) : SubSeq(s, i, i + Len(p) - 1) = p}
    IN  IF hits = {} THEN 0 ELSE CHOOSE i \in hits : \A j \in hits : i <= j

\* the first run of non-blank characters of s (s starts with a non-blank)
RECURSIVE word(_)
word(s) == IF s = <<>> \/ IsSpace(Head(s)) THEN <<>> ELSE <<Head(s)>> \o word(Tail(s))

\* str.split(): the words of s, separated by runs of blanks
RECURSIVE split_ws(_)
split_ws(s) ==
    LET t == lstrip(s)
    IN  IF t = <<>> THEN <<>>
        ELSE LET w == word(t)
             IN  <<w>> \o split_ws(SubSeq(t, Len(w) + 1, Len(t)))

\* str.split(maxsplit=1): the first word, then the rest with its leading
\* blanks dropped and its trailing blanks kept
split_ws1(s) ==
    LET t == lstrip(s)
    IN  IF t = <<>> THEN <<>>
        ELSE LET w == word(t)
                 r == lstrip(SubSeq(t, Len(w) + 1, Len(t)))
             IN  IF r = <<>> THEN <<w>> ELSE <<w, r>>

\* str.split(','): every part between commas, empty parts included
RECURSIVE split_comma(_)
split_comma(s) ==
    LET i == find(s, <<",">>)
    IN  IF i = 0 THEN <<s>>
        ELSE <<SubSeq(s, 1, i - 1)>> \o split_comma(SubSeq(s, i + 1, Len(s)))

Digits == <<"0", "1", "2", "3", "4", "5", "6", "7", "8", "9">>
IsDigit(c) == \E i \in 1..10 : Digits[i] = c
DigitVal(c) == (CHOOSE i \in 1..10 : Digits[i] = c) - 1

RECURSIVE digits_value(_, _)
digits_value(s, acc) ==
    IF s = <<>> THEN acc ELSE digits_value(Tail(s), 10 * acc + DigitVal(Head(s)))

\* int(val): blanks around, an optional sign, then decimal digits.  (Python
\* also takes single underscores between digits; no value of the model has one.)
int(val) ==
    LET t == strip(val)
        signed == t # <<>> /\ Head(t) \in {"+", "-"}
        d == IF signed THEN Tail(t) ELSE t
    IN  IF d = <<>> \/ \E i \in 1..Len(d) : ~IsDigit(d[i])
        THEN [ok |-> FALSE, val |-> 0]
        ELSE [ok |-> TRUE,
              val |-> IF signed /\ Head(t) = "-" THEN 0 - digits_value(d, 0)
                      ELSE digits_value(d, 0)]

\* str(n) for the small numbers git prints in the model
str(n) == <<Digits[n + 1]>>

DOTS == <<".", ".", ".">>
GONE == <<"g", "o", "n", "e">>
AHEAD == <<"a", "h", "e", "a", "d">>
BEHIND == <<"b", "e", "h", "i", "n", "d">>
SYNCED == <<"s", "y", "n", "c", "e", "d">>
FOO == <<"f", "o", "o">>

---------------------------------------------------------------------------
(* GitSyncStatus.                                                          *)

\* SYNC_PART.match(divergence): '[', characters other than brackets, ']', end
SYNC_PART_match(divergence) ==
    /\ Len(divergence) >= 2
    /\ divergence[1] = "["
    /\ divergence[Len(divergence)] = "]"
    /\ \A i \in 2..(Len(divergence) - 1) : divergence[i] \notin {"[", "]"}

\* sync_status.group(1)
SYNC_PART_group(divergence) == SubSeq(divergence, 2, Len(divergence) - 1)

NoSync ==
    [raised |-> "unset", branch |-> <<>>, remote |-> <<>>, is_tracked |-> FALSE,
     gone |-> FALSE, ahead |-> 0, behind |-> 0, attrs |-> {}]

Raised(e) == [NoSync EXCEPT !.raised = e]

\* setattr(self, key, n): ahead and behind are the attributes the class
\* declares; synced is a property without a setter; any other key becomes a
\* new attribute of the instance
setattr(self, key, n) ==
    IF key = AHEAD THEN [self EXCEPT !.ahead = n]
    ELSE IF key = BEHIND THEN [self EXCEPT !.behind = n]
    ELSE IF key = SYNCED THEN Raised("AttributeError")
    ELSE [self EXCEPT !.attrs = @ \cup {key}]

\* the loop over the comma-separated parts of the bracketed group
RECURSIVE sync_parts(_, _)
sync_parts(self, parts) ==
    IF parts = <<>> \/ self.raised # "none" THEN self
    ELSE LET part == Head(parts)
             kv == split_ws(part)
         IN  IF strip(part) = GONE
             THEN sync_parts([self EXCEPT !.gone = TRUE], Tail(parts))
             ELSE IF Len(kv) # 2 THEN Raised("ValueError")
             ELSE IF ~int(kv[2]).ok THEN Raised("ValueError")
             ELSE sync_parts(setattr(self, kv[1], int(kv[2]).val), Tail(parts))

\* GitSyncStatus.__init__
GitSyncStatus(branch, remote, divergence) ==
    LET self == [raised |-> "none", branch |-> branch, remote |-> remote,
                 is_tracked |-> remote # <<>>,
                 gone |-> FALSE, ahead |-> 0, behind |-> 0, attrs |-> {}]
    IN  IF ~SYNC_PART_match(divergence) THEN self
        ELSE sync_parts(self, split_comma(SYNC_PART_group(divergence)))

\* GitSyncStatus.parse
parse(status_line) ==
    LET i == find(status_line, DOTS)
    IN  IF i = 0 THEN GitSyncStatus(strip(status_line), <<>>, <<>>)
        ELSE LET branch == SubSeq(status_line, 1, i - 1)
                 rest == SubSeq(status_line, i + 3, Len(status_line))
                 two == split_ws1(rest)
                 remote == IF Len(two) = 2 THEN two[1] ELSE rest
                 divergence == IF Len(two) = 2 THEN two[2] ELSE <<>>
             IN  GitSyncStatus(strip(branch), strip(remote), strip(divergence))

\* GitSyncStatus.synced
sync_synced(self) == self.ahead = 0 /\ self.behind = 0 /\ ~self.gone

\* the marker info() computes
info_code(self) ==
    IF self.is_tracked
    THEN LET c == (IF self.behind > 0 THEN <<"<">> ELSE <<>>)
                  \o (IF self.ahead > 0 THEN <<">">> ELSE <<>>)
         IN  IF c = <<>> THEN <<"=">> ELSE c
    ELSE <<"U">>

\* '{:n}'.format(s): s, left-aligned in a field of n characters
pad(s, n) == s \o [i \in 1..(IF Len(s) < n THEN n - Len(s) ELSE 0) |-> SP]

\* GitSyncStatus.info
info(self) == pad(<<>>, 9) \o pad(info_code(self), 2) \o <<SP>> \o self.branch

---------------------------------------------------------------------------
(* What git writes.                                                        *)

BranchNames == {<<"m">>, <<"w">>, <<"_", "s">>}
Remotes == {<<>>, <<"o">>}

\* one token of a divergence group, as text
Tokens ==
    {GONE, <<>>, AHEAD, AHEAD \o <<SP, "x">>, AHEAD \o <<SP, "-", "1">>}
    \cup {k \o <<SP>> \o str(n) : k \in {AHEAD, BEHIND, FOO}, n \in 0..MaxNum}

BoundedSeq(S, n) == UNION {[1..k -> S] : k \in 0..n}

RECURSIVE join(_)
join(toks) ==
    IF toks = <<>> THEN <<>>
    ELSE IF Len(toks) = 1 THEN toks[1]
    ELSE toks[1] \o <<",", SP>> \o join(Tail(toks))

\* a line in one of the three shapes: <branch>, <branch>...<remote> (with the
\* blank the for-each-ref format leaves before an empty %(push:track), or
\* without it as in the status header), <branch>...<remote> [tokens]
Render(p) ==
    IF p.shape = "bare" THEN p.branch
    ELSE IF p.shape = "remote" THEN p.branch \o DOTS \o p.remote \o p.tail
    ELSE p.branch \o DOTS \o p.remote \o <<SP, "[">> \o join(p.toks) \o <<"]">>

Inputs ==
    {[shape |-> "bare", branch |-> b, remote |-> <<>>, tail |-> <<>>, toks |-> <<>>] :
        b \in BranchNames}
    \cup {[shape |-> "remote", branch |-> b, remote |-> r, tail |-> t, toks |-> <<>>] :
        b \in BranchNames, r \in Remotes, t \in {<<>>, <<SP>>}}
    \cup {[shape |-> "tokens", branch |-> b, remote |-> r, tail |-> <<>>, toks |-> ts] :
        b \in BranchNames, r \in Remotes, ts \in BoundedSeq(Tokens, MaxTokens)}

---------------------------------------------------------------------------
(* SpecParse: one line is parsed, then rendered.                           *)

NoInput == [shape |-> "none", branch |-> <<>>, remote |-> <<>>, tail |-> <<>>, toks |-> <<>>]

\* no line is being parsed
ParseOff == inp = NoInput /\ line = <<>> /\ sync = NoSync /\ shown = <<>>

ParseInit ==
    /\ inp \in Inputs
    /\ line = Render(inp)
    /\ sync = NoSync
    /\ shown = <<>>

\* sync = GitSyncStatus.parse(line)
Parse ==
    /\ sync.raised = "unset"
    /\ sync' = parse(line)
    /\ UNCHANGED <<inp, line, shown>>
    /\ UNCHANGED <<statusVars, walkVars>>

\* shown = sync.info()
Info ==
    /\ sync.raised = "none"
    /\ shown = <<>>
    /\ shown' = info(sync)
    /\ UNCHANGED <<inp, line, sync>>
    /\ UNCHANGED <<statusVars, walkVars>>

---------------------------------------------------------------------------
(* A repository as git sees it, and the output of the three queries.       *)

\* the upstream of a local branch and the divergence git reports for it: no
\* upstream, in step, ahead, behind, upstream gone.  (%(push:track) is taken to
\* be empty where there is no upstream and to agree with the status header
\* otherwise; Inputs above has the lines of the other case.)
BranchKinds ==
    {[upstream |-> <<>>, track |-> <<>>],
     [upstream |-> <<"o">>, track |-> <<>>],
     [upstream |-> <<"o">>, track |-> <<"[">> \o AHEAD \o <<SP, "1", "]">>],
     [upstream |-> <<"o">>, track |-> <<"[">> \o BEHIND \o <<SP, "1", "]">>],
     [upstream |-> <<"o">>, track |-> <<"[">> \o GONE \o <<"]">>]}

Branches ==
    {[name |-> n, upstream |-> k.upstream, track |-> k.track] :
        n \in BranchNames, k \in BranchKinds}

\* the local branches, each name once
BranchLists ==
    {bs \in BoundedSeq(Branches, MaxBranches) :
        \A i, j \in DOMAIN bs : i # j => bs[i].name # bs[j].name}

UNTRACKED_FILE == <<"?", "?", SP, "u">>
WORKDIR_FILE == <<SP, "M", SP, "a">>
INDEX_FILE == <<"A", SP, SP, "b">>
FileOrder == <<INDEX_FILE, WORKDIR_FILE, UNTRACKED_FILE>>

DETACHED == <<"H", "E", "A", "D", SP, "(", "n", "o", SP, "b", "r", "a", "n", "c", "h", ")">>
UNBORN == <<"N", "o", SP, "c", "o", "m", "m", "i", "t", "s", SP, "y", "e", "t", SP, "o", "n", SP, "m">>

\* head = 0: HEAD names no local branch (detached, or no commit yet)
HealthyRepos ==
    {[branches |-> bs, head |-> h, files |-> fs, stash |-> n, fails |-> "none"] :
        bs \in BranchLists, h \in 0..MaxBranches,
        fs \in SUBSET {UNTRACKED_FILE, WORKDIR_FILE, INDEX_FILE}, n \in 0..MaxStash}

\* a repository one of whose queries exits non-zero
BrokenRepos ==
    {[branches |-> <<>>, head |-> 0, files |-> {}, stash |-> 0, fails |-> q] :
        q \in {"status", "stash", "sync"}}

Repos == {r \in HealthyRepos : r.head <= Len(r.branches)} \cup BrokenRepos

\* the "## " line of git status --porcelain --branch
header(r) ==
    <<"#", "#", SP>> \o
    (IF r.head = 0 THEN (IF r.branches = <<>> THEN UNBORN ELSE DETACHED)
     ELSE LET b == r.branches[r.head]
          IN  IF b.upstream = <<>> THEN b.name
              ELSE IF b.track = <<>> THEN b.name \o DOTS \o b.upstream
              ELSE b.name \o DOTS \o b.upstream \o <<SP>> \o b.track)

\* GIT_STATUS: the header, then one line per changed path
GIT_STATUS(r) == <<header(r)>> \o SelectSeq(FileOrder, LAMBDA l : l \in r.files)

\* GIT_STASH: one line per stash entry
GIT_STASH(r) == [i \in 1..r.stash |-> <<"s">>]

\* SYNC_STATUS: '%(refname:short)...%(upstream:short) %(push:track)' per branch
SYNC_STATUS(r) ==
    [i \in DOMAIN r.branches |->
        r.branches[i].name \o DOTS \o r.branches[i].upstream \o <<SP>> \o r.branches[i].track]

---------------------------------------------------------------------------
(* GitFlags and GitStatus.                                                 *)

\* GitFlags.__init__
GitFlags(flags) ==
    LET kept == flags \ {SP}
    IN  [flags |-> kept, clean |-> kept = {},
         modified |-> "M" \in kept, added |-> "A" \in kept, deleted |-> "D" \in kept,
         renamed |-> "R" \in kept, copied |-> "C" \in kept, unmerged |-> "U" \in kept,
         typechange |-> "T" \in kept]

NoStatus ==
    [raised |-> "unset", head_sync |-> NoSync, untracked |-> FALSE,
     workdir_status |-> GitFlags({}), index_status |-> GitFlags({}),
     num_stash_entries |-> 0, branch_sync |-> <<>>]

\* the loop over the lines of the status output
RECURSIVE status_lines(_, _)
status_lines(acc, lines) ==
    IF lines = <<>> \/ acc.raised # "none" THEN acc
    ELSE LET l == Head(lines)
         IN  IF startswith(l, <<"#", "#", SP>>)
             THEN LET h == parse(SubSeq(l, 4, Len(l)))
                  IN  IF h.raised # "none" THEN [acc EXCEPT !.raised = h.raised]
                      ELSE status_lines([acc EXCEPT !.head_sync = h], Tail(lines))
             ELSE IF startswith(l, <<"?", "?", SP>>)
             THEN status_lines([acc EXCEPT !.untracked = TRUE], Tail(lines))
             ELSE IF Len(l) < 2 THEN [acc EXCEPT !.raised = "ValueError"]
             ELSE status_lines([acc EXCEPT !.index_flags = @ \cup {l[1]},
                                           !.workdir_flags = @ \cup {l[2]}],
                               Tail(lines))

\* the first exception raised while the list of GitSyncStatus was built, or
\* "none"
sync_raised(syncs) ==
    LET bad == {i \in DOMAIN syncs : syncs[i].raised # "none"}
    IN  IF bad = {} THEN "none"
        ELSE syncs[CHOOSE i \in bad : \A j \in bad : i <= j].raised

\* GitStatus.__init__
GitStatus(folder) ==
    IF folder.fails = "status" THEN [NoStatus EXCEPT !.raised = "CalledProcessError"]
    ELSE
    LET acc == status_lines([raised |-> "none", head_sync |-> NoSync, untracked |-> FALSE,
                             index_flags |-> {}, workdir_flags |-> {}],
                            GIT_STATUS(folder))
        sync_output == SYNC_STATUS(folder)
        branch_sync == [i \in DOMAIN sync_output |-> parse(sync_output[i])]
    IN  IF acc.raised # "none" THEN [NoStatus EXCEPT !.raised = acc.raised]
        ELSE IF folder.fails \in {"stash", "sync"}
        THEN [NoStatus EXCEPT !.raised = "CalledProcessError"]
        ELSE IF sync_raised(branch_sync) # "none"
        THEN [NoStatus EXCEPT !.raised = sync_raised(branch_sync)]
        ELSE [raised |-> "none",
              head_sync |-> acc.head_sync,
              untracked |-> acc.untracked,
              workdir_status |-> GitFlags(acc.workdir_flags),
              index_status |-> GitFlags(acc.index_flags),
              num_stash_entries |-> Len(GIT_STASH(folder)),
              branch_sync |-> branch_sync]

\* stat.branch.startswith('_')
is_pseudo(branch) == startswith(branch, <<"_">>)

\* synced, were the pseudo branches not left out
synced_of_every_branch(self) ==
    \A i \in DOMAIN self.branch_sync : sync_synced(self.branch_sync[i])

\* GitStatus.synced
synced(self) ==
    \A i \in DOMAIN self.branch_sync :
        ~is_pseudo(self.branch_sync[i].branch) => sync_synced(self.branch_sync[i])

\* num_untracked_branches, were the head branch not left out
num_untracked_with_head(self) ==
    Cardinality({i \in DOMAIN self.branch_sync :
        /\ ~is_pseudo(self.branch_sync[i].branch)
        /\ ~self.branch_sync[i].is_tracked})

\* GitStatus.num_untracked_branches
num_untracked_branches(self) ==
    LET head == self.head_sync.branch
    IN  Cardinality({i \in DOMAIN self.branch_sync :
            /\ ~is_pseudo(self.branch_sync[i].branch)
            /\ self.branch_sync[i].branch # head
            /\ ~self.branch_sync[i].is_tracked})

\* clean, were the stash taken into account
clean_counting_stash(self) ==
    /\ self.workdir_status.clean
    /\ self.index_status.clean
    /\ synced(self)
    /\ self.head_sync.is_tracked
    /\ num_untracked_branches(self) = 0
    /\ self.num_stash_entries = 0

\* GitStatus.clean
clean(self) ==
    /\ self.workdir_status.clean
    /\ self.index_status.clean
    /\ synced(self)
    /\ self.head_sync.is_tracked
    /\ num_untracked_branches(self) = 0

\* code, were the columns of the head and of the branches exchanged
code_head_after_branches(self) ==
    <<IF self.workdir_status.clean THEN SP ELSE "W",
      IF self.index_status.clean THEN SP ELSE "I",
      IF self.untracked THEN "T" ELSE SP,
      IF synced(self) THEN SP ELSE "L",
      IF num_untracked_branches(self) = 0 THEN SP ELSE "B",
      IF self.head_sync.is_tracked THEN SP ELSE "H",
      IF self.num_stash_entries = 0 THEN SP ELSE "S">>

\* GitStatus.code
code(self) ==
    <<IF self.workdir_status.clean THEN SP ELSE "W",
      IF self.index_status.clean THEN SP ELSE "I",
      IF self.untracked THEN "T" ELSE SP,
      IF synced(self) THEN SP ELSE "L",
      IF self.head_sync.is_tracked THEN SP ELSE "H",
      IF num_untracked_branches(self) = 0 THEN SP ELSE "B",
      IF self.num_stash_entries = 0 THEN SP ELSE "S">>

---------------------------------------------------------------------------
(* SpecStatus: the status of one repository is built, then reported.       *)

NoReport == [clean |-> FALSE, code |-> <<>>, details |-> <<>>]

NoRepo == [branches |-> <<>>, head |-> 0, files |-> {}, stash |-> 0, fails |-> "none"]

\* no status is being built
StatusOff == repo = NoRepo /\ status = NoStatus /\ report = NoReport

StatusInit ==
    /\ repo \in Repos
    /\ status = NoStatus
    /\ report = NoReport

\* status = GitStatus(folder), which returns
Construct ==
    /\ status.raised = "unset"
    /\ LET self == GitStatus(repo)
       IN  self.raised = "none" /\ status' = self
    /\ UNCHANGED <<repo, report>>
    /\ UNCHANGED <<parseVars, walkVars>>

\* status = GitStatus(folder), which raises
ConstructRaises ==
    /\ status.raised = "unset"
    /\ LET self == GitStatus(repo)
       IN  self.raised # "none" /\ status' = self
    /\ UNCHANGED <<repo, report>>
    /\ UNCHANGED <<parseVars, walkVars>>

\* status.clean, status.code() and the info() of the branches show_repos lists
Report ==
    /\ status.raised = "none"
    /\ report = NoReport
    /\ report' = [clean |-> clean(status),
                  code |-> code(status),
                  details |-> LET shownB == SelectSeq(status.branch_sync,
                                      LAMBDA stat : ~sync_synced(stat) \/ ~stat.is_tracked)
                              IN  [i \in DOMAIN shownB |-> info(shownB[i])]]
    /\ UNCHANGED <<repo, status>>
    /\ UNCHANGED <<parseVars, walkVars>>

---------------------------------------------------------------------------
(* The directory tree.  A directory is named by its real path; a path is   *)
(* the sequence of names os.path.join builds below the root.               *)

A == <<"a">>
B == <<"b">>
C == <<"c">>
L == <<"l">>
HID == <<".", "h">>
DOTGIT == <<".", "g", "i", "t">>

\* the root, and the directories <<A>>, <<B>>, <<HID>> and <<A, C>> below it
ROOT == <<>>
NoLink == <<<<"-">>>>

\* the two places where a symbolic link to a directory may stand
LinkAC == <<A, C, L>>
LinkB == <<B, L>>

\* the directories below a directory that are no links
RealChildren(d) ==
    IF d = ROOT THEN {A, B, HID}
    ELSE IF d = <<A>> THEN {C}
    ELSE {}

Trees ==
    {[links |-> (LinkAC :> x) @@ (LinkB :> y), git |-> g \cup {<<HID>>}] :
        x \in {NoLink, ROOT, <<B>>, <<HID>>},
        y \in {NoLink, <<A>>, <<A, C>>},
        g \in SUBSET {<<A>>, <<B>>, <<A, C>>}}

IsLink(t, p) == p \in DOMAIN t.links /\ t.links[p] # NoLink

\* os.path.realpath, then os.path.normpath: every link on the way is followed
RECURSIVE resolve(_, _, _)
resolve(t, at, names) ==
    IF names = <<>> THEN at
    ELSE LET next == Append(at, Head(names))
         IN  resolve(t, IF IsLink(t, next) THEN t.links[next] ELSE next, Tail(names))

realpath(t, p) == resolve(t, ROOT, p)

\* the names os.listdir(folder) returns for which os.path.isdir holds
subdir_names(t, folder) ==
    LET d == realpath(t, folder)
    IN  RealChildren(d)
        \cup {n \in {L} : IsLink(t, Append(d, n))}
        \cup (IF d \in t.git THEN {DOTGIT} ELSE {})

\* every order in which os.listdir may return the names
Orders(S) == {o \in [1..Cardinality(S) -> S] : \A i, j \in DOMAIN o : i # j => o[i] # o[j]}

\* the paths that may be given with --ignore
IgnoreArgs == {<<A>>, <<A, C>>, <<HID>>, LinkB}
IgnoreLists == {I \in SUBSET IgnoreArgs : Cardinality(I) <= MaxIgnore}

\* the repositories the walk may find: in order, with a diverged branch and a
\* changed file, or with a query that fails
CleanRepo ==
    [branches |-> <<[name |-> <<"m">>, upstream |-> <<"o">>, track |-> <<>>]>>,
     head |-> 1, files |-> {}, stash |-> 0, fails |-> "none"]
DirtyRepo ==
    [branches |-> <<[name |-> <<"m">>, upstream |-> <<"o">>,
                     track |-> <<"[">> \o AHEAD \o <<SP, "1", "]">>]>>,
     head |-> 1, files |-> {WORKDIR_FILE}, stash |-> 0, fails |-> "none"]
WalkRepos == {CleanRepo, DirtyRepo} \cup BrokenRepos

---------------------------------------------------------------------------
(* Spec: show_repos, which reports every repository the generator          *)
(* collect_git_repositories yields.                                        *)

\* no walk is under way
WalkOff ==
    /\ tree = [links |-> (LinkAC :> NoLink) @@ (LinkB :> NoLink), git |-> {}]
    /\ args = [ignore |-> {}, maxdepth |-> 0, show_clean |-> FALSE,
               show_branch_details |-> FALSE]
    /\ ignore = {}
    /\ stack = <<>>
    /\ current = <<>>
    /\ yielded = <<>>
    /\ listed = <<>>
    /\ skipped = <<>>
    /\ failed = {}
    /\ out = <<>>
    /\ pc = "off"

\* show_repos up to the first call of the generator: folder and ignore resolved
ShowReposInit ==
    /\ tree \in Trees
    /\ args \in [ignore : IgnoreLists, maxdepth : (0 - 1)..MaxDepthArg,
                 show_clean : BOOLEAN, show_branch_details : BOOLEAN]
    /\ ignore = {realpath(tree, p) : p \in args.ignore}
    /\ stack = <<[folder |-> ROOT, maxdepth |-> args.maxdepth]>>
    /\ current = <<>>
    /\ yielded = <<>>
    /\ listed = <<>>
    /\ skipped = <<>>
    /\ failed = {}
    /\ out = <<>>
    /\ pc = "walk"

Init ==
    /\ inp = NoInput /\ line = <<>> /\ sync = NoSync /\ shown = <<>>
    /\ repo = NoRepo /\ status = NoStatus /\ report = NoReport
    /\ ShowReposInit

\* collect_git_repositories(folder, ignore, maxdepth): the path is in ignore
VisitIgnored ==
    /\ pc = "walk" /\ stack # <<>>
    /\ realpath(tree, Head(stack).folder) \in ignore
    /\ skipped' = Append(skipped, Head(stack).folder)
    /\ stack' = Tail(stack)
    /\ UNCHANGED <<tree, args, ignore, current, yielded, listed, failed, out, pc>>
    /\ UNCHANGED <<parseVars, statusVars>>

\* VisitRepo, were the path of a repository not added to ignore
VisitRepoNotRemembered ==
    /\ pc = "walk" /\ stack # <<>>
    /\ LET folder == Head(stack).folder
           normpath == realpath(tree, folder)
       IN  /\ normpath \notin ignore
           /\ ignore' = ignore
           /\ listed' = Append(listed, folder)
           /\ DOTGIT \in subdir_names(tree, folder)
           /\ yielded' = Append(yielded, folder)
           /\ current' = folder
    /\ stack' = Tail(stack)
    /\ pc' = "report"
    /\ UNCHANGED <<tree, args, skipped, failed, out>>
    /\ UNCHANGED <<parseVars, statusVars>>

\* collect_git_repositories: the directory holds .git, its path is yielded
VisitRepo ==
    /\ pc = "walk" /\ stack # <<>>
    /\ LET folder == Head(stack).folder
           normpath == realpath(tree, folder)
       IN  /\ normpath \notin ignore
           /\ ignore' = ignore \cup {normpath}
           /\ listed' = Append(listed, folder)
           /\ DOTGIT \in subdir_names(tree, folder)
           /\ yielded' = Append(yielded, folder)
           /\ current' = folder
    /\ stack' = Tail(stack)
    /\ pc' = "report"
    /\ UNCHANGED <<tree, args, skipped, failed, out>>
    /\ UNCHANGED <<parseVars, statusVars>>

\* collect_git_repositories: no .git, and maxdepth is 0
VisitDepthEnd ==
    /\ pc = "walk" /\ stack # <<>>
    /\ LET folder == Head(stack).folder
           normpath == realpath(tree, folder)
       IN  /\ normpath \notin ignore
           /\ ignore' = ignore \cup {normpath}
           /\ listed' = Append(listed, folder)
           /\ DOTGIT \notin subdir_names(tree, folder)
    /\ Head(stack).maxdepth = 0
    /\ stack' = Tail(stack)
    /\ UNCHANGED <<tree, args, current, yielded, skipped, failed, out, pc>>
    /\ UNCHANGED <<parseVars, statusVars>>

\* the calls the loop over subdirs makes, in the order of the listing
subfolder_calls(folder, subdirs, maxdepth) ==
    LET shownS == SelectSeq(subdirs, LAMBDA subdir : ~startswith(subdir, <<".">>))
    IN  [i \in DOMAIN shownS |->
            [folder |-> Append(folder, shownS[i]), maxdepth |-> maxdepth - 1]]

\* collect_git_repositories: no .git, the subdirectories are walked
VisitDescend ==
    /\ pc = "walk" /\ stack # <<>>
    /\ LET folder == Head(stack).folder
           normpath == realpath(tree, folder)
       IN  /\ normpath \notin ignore
           /\ ignore' = ignore \cup {normpath}
           /\ listed' = Append(listed, folder)
           /\ DOTGIT \notin subdir_names(tree, folder)
           /\ Head(stack).maxdepth # 0
           /\ \E subdirs \in Orders(subdir_names(tree, folder)) :
                stack' = subfolder_calls(folder, subdirs, Head(stack).maxdepth)
                         \o Tail(stack)
    /\ UNCHANGED <<tree, args, current, yielded, skipped, failed, out, pc>>
    /\ UNCHANGED <<parseVars, statusVars>>

\* the generator is exhausted and show_repos returns
WalkEnd ==
    /\ pc = "walk" /\ stack = <<>>
    /\ pc' = "done"
    /\ UNCHANGED <<tree, args, ignore, stack, current, yielded, listed, skipped, failed, out>>
    /\ UNCHANGED <<parseVars, statusVars>>

\* the lines show_repos prints for a status
status_lines_printed(st, folder, show_branch_details) ==
    LET shownB == SelectSeq(st.branch_sync,
                            LAMBDA stat : ~sync_synced(stat) \/ ~stat.is_tracked)
    IN  <<[kind |-> "status", text |-> code(st), folder |-> folder]>>
        \o (IF show_branch_details
            THEN [i \in DOMAIN shownB |->
                    [kind |-> "branch", text |-> info(shownB[i]), folder |-> folder]]
            ELSE <<>>)

\* the body of the loop of show_repos: GitStatus(folder) raises, and nothing
\* in show_repos or main catches it
ReportRaises ==
    /\ pc = "report"
    /\ \E r \in WalkRepos :
        /\ GitStatus(r).raised # "none"
        /\ failed' = failed \cup {current}
        /\ pc' = "aborted"
    /\ UNCHANGED <<tree, args, ignore, stack, current, yielded, listed, skipped, out>>
    /\ UNCHANGED <<parseVars, statusVars>>

\* the body of the loop: the repository is clean and --all was not given
ReportSkipsClean ==
    /\ pc = "report"
    /\ \E r \in WalkRepos :
        LET st == GitStatus(r)
        IN  /\ st.raised = "none"
            /\ clean(st) /\ ~args.show_clean
            /\ pc' = "walk"
    /\ UNCHANGED <<tree, args, ignore, stack, current, yielded, listed, skipped, failed, out>>
    /\ UNCHANGED <<parseVars, statusVars>>

\* the body of the loop: the status line, and the branch lines when asked for
ReportPrints ==
    /\ pc = "report"
    /\ \E r \in WalkRepos :
        LET st == GitStatus(r)
        IN  /\ st.raised = "none"
            /\ ~(clean(st) /\ ~args.show_clean)
            /\ out' = out \o status_lines_printed(st, current, args.show_branch_details)
            /\ pc' = "walk"
    /\ UNCHANGED <<tree, args, ignore, stack, current, yielded, listed, skipped, failed>>
    /\ UNCHANGED <<parseVars, statusVars>>

Next ==
    \/ VisitIgnored
    \/ VisitRepo
    \/ VisitDepthEnd
    \/ VisitDescend
    \/ WalkEnd
    \/ ReportRaises
    \/ ReportSkipsClean
    \/ ReportPrints

Spec == Init /\ [][Next]_vars

ParseNext == Parse \/ Info

InitParse == ParseInit /\ StatusOff /\ WalkOff

SpecParse == InitParse /\ [][ParseNext]_vars

StatusNext == Construct \/ ConstructRaises \/ Report

InitStatus == StatusInit /\ ParseOff /\ WalkOff

SpecStatus == InitStatus /\ [][StatusNext]_vars

---------------------------------------------------------------------------
(* The parser of one sync line (checked under SpecParse).                  *)

Range(f) == {f[i] : i \in DOMAIN f}

Tok(k, n) == k \o <<SP>> \o str(n)

\* a token of the grammar: gone, ahead N or behind N, N a non-negative integer
InGrammar(tok) ==
    tok = GONE \/ \E k \in {AHEAD, BEHIND}, n \in 0..MaxNum : tok = Tok(k, n)

\* the number the line gives for key k, 0 when the line has no such token
Given(p, k) ==
    IF \E n \in 0..MaxNum : Tok(k, n) \in Range(p.toks)
    THEN CHOOSE n \in 0..MaxNum : Tok(k, n) \in Range(p.toks)
    ELSE 0

\* a line of one of the three shapes, each of its tokens in the grammar and
\* no key given twice
WellFormed(p) ==
    /\ p.shape = "tokens" => p.toks # <<>>
    /\ \A i \in DOMAIN p.toks : InGrammar(p.toks[i])
    /\ \A k \in {AHEAD, BEHIND} :
        Cardinality({i \in DOMAIN p.toks : startswith(p.toks[i], k)}) <= 1

Parsed == sync.raised # "unset"

\* C6: parse of a well-formed line yields the trimmed branch and remote,
\* isTracked = (remote non-empty), ahead and behind as the tokens give them
\* (0 when absent), gone iff a gone token is present, synced = (ahead = 0 and
\* behind = 0 and not gone); a line without "..." is untracked and synced, and
\* a line whose remote part is empty is never tracked.
C6_ParseYieldsTheFieldsOfTheLine ==
    (Parsed /\ WellFormed(inp)) =>
        /\ sync.raised = "none"
        /\ sync.branch = strip(inp.branch)
        /\ sync.remote = strip(inp.remote)
        /\ sync.is_tracked = (inp.remote # <<>>)
        /\ sync.ahead = Given(inp, AHEAD)
        /\ sync.behind = Given(inp, BEHIND)
        /\ sync.gone = (GONE \in Range(inp.toks))
        /\ sync_synced(sync) = (sync.ahead = 0 /\ sync.behind = 0 /\ ~sync.gone)
        /\ inp.shape = "bare" =>
            sync.remote = <<>> /\ ~sync.is_tracked /\ sync_synced(sync)
        /\ inp.remote = <<>> => ~sync.is_tracked

\* C6 without its last case: the same, for the lines that name a remote or
\* carry no bracketed group
C6_HoldsWhenTheRemoteIsNamed ==
    (Parsed /\ WellFormed(inp) /\ (inp.remote # <<>> \/ inp.shape # "tokens")) =>
        C6_ParseYieldsTheFieldsOfTheLine

\* C7: parsing a bracketed divergence group fails whenever one of its tokens
\* is neither gone nor ahead N nor behind N with N a non-negative integer.
C7_MalformedTokenIsRejected ==
    (/\ Parsed
     /\ inp.shape = "tokens" /\ inp.remote # <<>>
     /\ \E i \in DOMAIN inp.toks : ~InGrammar(inp.toks[i]))
        => sync.raised # "none"

\* the marker and the name in the text info() returned
Marker == strip(SubSeq(shown, 10, 11))
NameShown == SubSeq(shown, 13, Len(shown))

\* C9: the marker of info() contains "<" iff behind > 0, contains ">" iff
\* ahead > 0, is "=" iff the branch is tracked and synced, is "U" iff the
\* branch is untracked; the branch name follows the marker.
C9_InfoMarker ==
    shown # <<>> =>
        /\ ("<" \in Range(Marker)) = (sync.behind > 0)
        /\ (">" \in Range(Marker)) = (sync.ahead > 0)
        /\ (Marker = <<"=">>) = (sync.is_tracked /\ sync_synced(sync))
        /\ (Marker = <<"U">>) = ~sync.is_tracked
        /\ NameShown = sync.branch

---------------------------------------------------------------------------
(* The status of one repository (checked under SpecStatus).                *)

Built == status.raised = "none"
Reported == report # NoReport

\* the entries of the branch-sync list that are no pseudo branches
Real(st) == {i \in DOMAIN st.branch_sync : st.branch_sync[i].branch[1] # "_"}

\* the same repository with other untracked files and another stash
WithFilesAndStash(r, untrackedFile, n) ==
    [r EXCEPT !.files = IF untrackedFile THEN @ \cup {UNTRACKED_FILE}
                        ELSE @ \ {UNTRACKED_FILE},
              !.stash = n]

\* C1: clean is true exactly when the workdir flag set is empty, the index
\* flag set is empty, every branch whose name does not start with "_" is
\* synced, the head's BranchSync is tracked and untrackedBranchCount is 0;
\* the untracked-files flag and the stash count never change clean.
C1_CleanIffAllClear ==
    Reported =>
        /\ report.clean =
            (/\ status.workdir_status.flags = {}
             /\ status.index_status.flags = {}
             /\ \A i \in Real(status) :
                    /\ status.branch_sync[i].ahead = 0
                    /\ status.branch_sync[i].behind = 0
                    /\ ~status.branch_sync[i].gone
             /\ status.head_sync.is_tracked
             /\ num_untracked_branches(status) = 0)
        /\ (status.workdir_status.flags = {}) = (WORKDIR_FILE \notin repo.files)
        /\ (status.index_status.flags = {}) = (INDEX_FILE \notin repo.files)
        /\ \A u \in BOOLEAN, n \in 0..MaxStash :
            clean(GitStatus(WithFilesAndStash(repo, u, n))) = report.clean

\* a clean repository with untracked files and a stash
C1_Witness ==
    Reported /\ report.clean /\ UNTRACKED_FILE \in repo.files /\ repo.stash > 0

Letters == <<"W", "I", "T", "L", "H", "B", "S">>

\* C2: code() is a string of exactly 7 characters: W iff the workdir flags are
\* not clean, I iff the index flags are not clean, T iff untracked files were
\* reported, L iff not synced, H iff the head is not tracked, B iff
\* untrackedBranchCount > 0, S iff stashCount > 0, in this order, and every
\* other position is a space.
C2_CodeColumns ==
    Reported =>
        /\ Len(report.code) = 7
        /\ \A i \in 1..7 : report.code[i] \in {Letters[i], SP}
        /\ (report.code[1] = "W") = (status.workdir_status.flags # {})
        /\ (report.code[2] = "I") = (status.index_status.flags # {})
        /\ (report.code[3] = "T") = (UNTRACKED_FILE \in repo.files)
        /\ (report.code[4] = "L") =
            (\E i \in Real(status) : ~sync_synced(status.branch_sync[i]))
        /\ (report.code[5] = "H") = ~status.head_sync.is_tracked
        /\ (report.code[6] = "B") = (num_untracked_branches(status) > 0)
        /\ (report.code[7] = "S") = (repo.stash > 0)

\* a repository for which every column is set
C2_Witness == Reported /\ report.code = Letters

\* the pseudo branches of a repository
Pseudo(r) == {i \in DOMAIN r.branches : is_pseudo(r.branches[i].name)}

\* the same repository in which branch i is tracked and synced
TrackedAndSynced(r, i) ==
    [r EXCEPT !.branches[i].upstream = <<"o">>, !.branches[i].track = <<>>]

\* C4 as claimed: a branch whose name starts with "_" never affects clean,
\* synced or untrackedBranchCount, whatever its state and whether or not it is
\* the checked-out branch.
C4_PseudoBranchNeverCounts ==
    Built =>
        \A i \in Pseudo(repo) :
            LET other == GitStatus(TrackedAndSynced(repo, i))
            IN  /\ clean(other) = clean(status)
                /\ synced(other) = synced(status)
                /\ num_untracked_branches(other) = num_untracked_branches(status)

\* C4 as amended: such a branch never affects synced or untrackedBranchCount,
\* and it never affects clean except by being the checked-out branch and
\* untracked, in which case the repository is not clean.
C4_PseudoBranchCountsOnlyAsUntrackedHead ==
    Built =>
        \A i \in Pseudo(repo) :
            LET other == GitStatus(TrackedAndSynced(repo, i))
            IN  /\ synced(other) = synced(status)
                /\ num_untracked_branches(other) = num_untracked_branches(status)
                /\ IF i = repo.head /\ repo.branches[i].upstream = <<>>
                   THEN ~clean(status)
                   ELSE clean(other) = clean(status)

\* a clean repository whose checked-out branch is a pseudo branch that is
\* ahead of, behind, or without its upstream
C4_Witness ==
    /\ Reported /\ report.clean
    /\ \E i \in Pseudo(repo) : i = repo.head /\ repo.branches[i].track # <<>>

\* a clean repository with an untracked pseudo branch that is not checked out
C4_WitnessOther ==
    /\ Reported /\ report.clean
    /\ \E i \in Pseudo(repo) : i # repo.head /\ repo.branches[i].upstream = <<>>

\* C5: untrackedBranchCount is the number of entries of branchSyncs that are
\* untracked, whose name does not start with "_" and differs from the head
\* branch name of the status header; an untracked head branch is never
\* counted; the B column of code() is set iff the count is at least 1.
C5_UntrackedBranchCount ==
    Reported =>
        /\ num_untracked_branches(status) =
            Cardinality({i \in Real(status) :
                /\ ~status.branch_sync[i].is_tracked
                /\ status.branch_sync[i].branch # status.head_sync.branch})
        /\ num_untracked_branches(status) =
            Cardinality({i \in DOMAIN repo.branches :
                /\ repo.branches[i].upstream = <<>>
                /\ ~is_pseudo(repo.branches[i].name)
                /\ i # repo.head})
        /\ (report.code[6] = "B") = (num_untracked_branches(status) >= 1)

\* an untracked head beside one other untracked branch: the count is 1
C5_Witness ==
    /\ Reported
    /\ repo.head > 0 /\ repo.branches[repo.head].upstream = <<>>
    /\ ~is_pseudo(repo.branches[repo.head].name)
    /\ num_untracked_branches(status) = 1
    /\ report.code[5] = "H" /\ report.code[6] = "B"

\* C8: every RepositoryStatus that exists has a headSync whose branch name is
\* the name of some element of branchSyncs (a head that matches no entry makes
\* the construction fail).
C8_HeadSyncIsAmongBranchSyncs ==
    Built =>
        \E i \in DOMAIN status.branch_sync :
            status.branch_sync[i].branch = status.head_sync.branch

---------------------------------------------------------------------------
(* The walk and the report (checked under Spec).                           *)

\* the resolved paths given with --ignore
Ignored == {realpath(tree, p) : p \in args.ignore}

\* C3: when constructing the status of one repository fails, show_repos
\* prints an error line for that repository and continues with the
\* repositories that come after it.
C3_FailureIsScopedToOneRepository ==
    \A p \in failed :
        /\ \E i \in DOMAIN out : out[i].kind = "error" /\ out[i].folder = p
        /\ pc \in {"walk", "report", "done"}

\* C10: collect_git_repositories never yields two paths with the same
\* resolved path, never yields nor lists a directory whose resolved path is
\* in the ignore list, and never lists again a directory it reaches a second
\* time through another path.
C10_WalkVisitsEachDirectoryOnce ==
    /\ \A i, j \in DOMAIN yielded :
        i # j => realpath(tree, yielded[i]) # realpath(tree, yielded[j])
    /\ \A i \in DOMAIN yielded : realpath(tree, yielded[i]) \notin Ignored
    /\ \A i \in DOMAIN listed : realpath(tree, listed[i]) \notin Ignored
    /\ \A i, j \in DOMAIN listed :
        i # j => realpath(tree, listed[i]) # realpath(tree, listed[j])
    /\ \A i \in DOMAIN yielded :
        /\ yielded[i] \in Range(listed)
        /\ DOTGIT \in subdir_names(tree, yielded[i])

\* a finished walk that reached a yielded repository a second time, through
\* another path
C10_Witness ==
    /\ pc = "done"
    /\ \E i \in DOMAIN skipped, j \in DOMAIN yielded :
        /\ skipped[i] # yielded[j]
        /\ realpath(tree, skipped[i]) = realpath(tree, yielded[j])

\* a finished walk that reached a repository of the ignore list through a
\* path other than the one given, and yielded another repository
C10_WitnessIgnored ==
    /\ pc = "done" /\ yielded # <<>>
    /\ \E i \in DOMAIN skipped :
        /\ skipped[i] \notin args.ignore
        /\ realpath(tree, skipped[i]) \in Ignored
        /\ realpath(tree, skipped[i]) \in tree.git

====
